---- MODULE Spec2Model ----
(***************************************************************************)
(* A model of st2common/models/api/base.py (BaseAPI, _handle_error and the *)
(* jsexpose decorator) and of st2common/models/api/execution.py            *)
(* (ActionExecutionAPI.from_model / to_model).                             *)
(*                                                                         *)
(* SpecJs  : one request through a jsexpose-wrapped controller method.     *)
(* SpecApi : BaseAPI construction and the document <-> API conversions.    *)
(***************************************************************************)
EXTENDS Integers, Sequences, FiniteSets, TLC

VARIABLES
    phase,        \* "ready": the call is pending; "done": callfunction has returned
    arg_types,    \* jsexpose(arg_types=...): a sequence of type names (None is the empty one)
    body_cls,     \* jsexpose(body_cls=...): TRUE when a request body class is given
    status_code,  \* jsexpose(status_code=...): 0 stands for None
    content_type, \* jsexpose(content_type=...)
    argspec,      \* inspect.getargspec(f).args[1:], the names of f after self
    args,         \* *args of the call (the controller instance first, when present)
    kwargs,       \* **kwargs of the call
    params,       \* the names in pecan.request.params
    response,     \* pecan.response: [status, headers]
    call,         \* what the call did: see NoCall
    step,         \* SpecApi: the operation pending, or the one that has run
    kw,           \* the keyword mapping given to a BaseAPI subclass
    inst,         \* the instance it constructs: [attrs, exc]
    heap,         \* the mappings in memory, by address
    api,          \* what from_model returned: [attrs, exc]
    conv          \* what to_model returned: [model, exc]

jsvars  == <<phase, arg_types, body_cls, status_code, content_type, argspec,
             args, kwargs, params, response, call>>
apivars == <<step, kw, inst, heap, api, conv>>
vars    == <<jsvars, apivars>>

(***************************************************************************)
(* Bounds of the model.                                                    *)
(***************************************************************************)
MaxTypes == 2   \* longest arg_types list
MaxNames == 2   \* most named parameters of f after self
MaxArgs  == 2   \* most positional arguments after the controller instance

(***************************************************************************)
(* Program constants.                                                      *)
(***************************************************************************)
BAD_REQUEST           == 400
INTERNAL_SERVER_ERROR == 500
NOT_IMPLEMENTED       == 501
METHOD_NOT_ALLOWED    == 405
FORBIDDEN             == 403

QUERY_PARAM_ATTRIBUTE_NAME == "x-auth-token"

\* noop_codes without FORBIDDEN.
noop_codes_NoForbidden == {NOT_IMPLEMENTED, METHOD_NOT_ALLOWED}

noop_codes == {NOT_IMPLEMENTED, METHOD_NOT_ALLOWED, FORBIDDEN}

(***************************************************************************)
(* Values.  Request values are strings; a coerced value keeps the type     *)
(* that produced it, so that coercion by one type is told from coercion by *)
(* another and from no coercion at all.                                    *)
(***************************************************************************)
Controller == [t |-> "controller", v |-> "self"]
Raw(s)     == [t |-> "raw", v |-> s]
Numeric    == {"1", "2", "3", "4", "7"}

AllNames  == <<"a", "b", "c", "d">>
AllTypes  == <<"int", "float", "int", "float">>
AllValues == <<"1", "2", "3", "4">>

Range(s) == {s[i] : i \in DOMAIN s}

\* An exception object: its class, e.message and, for a webob HTTP exception,
\* the status code, body and headers of its wsgi_response.
Exc(type, message) ==
    [type |-> type, message |-> message, status |-> 0, body |-> "", headers |-> {}]
NoExc == Exc("none", "")
HTTPExc(type, message, status, body, headers) ==
    [type |-> type, message |-> message, status |-> status, body |-> body,
     headers |-> headers]

IsHTTPException(e) == e.type \in {"HTTPUnauthorized", "HTTPNotFound", "HTTPNotModified"}

\* What a call of a type (int, float) on a request value does: the coerced
\* value, or ValueError for a string that is no number.
CoerceRaises(type, a) == a.v \notin Numeric
Coerce(type, a)       == [t |-> type, v |-> a.v]
CoerceError(type, a)  == Exc("ValueError", "invalid literal")

(***************************************************************************)
(* Return values of callfunction.                                          *)
(***************************************************************************)
NoRet            == [kind |-> "none",  faultstring |-> "", value |-> ""]
ErrorBody(msg)   == [kind |-> "error", faultstring |-> msg, value |-> ""]
json_encode(x)   == [kind |-> "json",  faultstring |-> "", value |-> x]
RawResult(x)     == [kind |-> "raw",   faultstring |-> "", value |-> x]

\* pecan.response of a fresh request.
FreshResponse == [status |-> 200, headers |-> {"Content-Type"}]

(***************************************************************************)
(* _handle_error(e, status_code, body=None, headers=None).  A body is a    *)
(* string (the body of a webob response; None and '' are both falsy and    *)
(* both the empty string here), so a body that is not empty fails the      *)
(* assertion that error_body is a dict.                                    *)
(***************************************************************************)
handle_error(resp, e, code, body, headers) ==
    LET r1 == [resp EXCEPT !.status = code]
        r2 == IF headers # {} THEN [r1 EXCEPT !.headers = headers] ELSE r1
    IN  IF body # ""
        THEN [response |-> r2, ret |-> NoRet, exc |-> Exc("AssertionError", "")]
        ELSE [response |-> r2, ret |-> ErrorBody(e.message), exc |-> NoExc]

(***************************************************************************)
(* The frame of one call of callfunction.                                  *)
(***************************************************************************)
Frame(a, kws) ==
    [args     |-> a,          \* the local list args
     types    |-> arg_types,  \* copy.copy(arg_types)
     more     |-> <<>>,
     kwargs   |-> kws,
     response |-> FreshResponse,
     raised   |-> NoExc,      \* the first exception raised in the call
     where    |-> "none",     \* where it was raised
     exc      |-> NoExc,      \* the exception in flight
     ret      |-> NoRet,      \* the value returned, once there is one
     body     |-> "none",     \* the request body read, if any
     invoked  |-> FALSE,      \* f was called
     fargs    |-> <<>>,       \* with these positional arguments
     fkwargs  |-> [k \in {} |-> Raw("")],  \* and these keyword arguments
     propagated |-> FALSE]    \* an exception left callfunction

Raise(fr, e, where) ==
    [fr EXCEPT !.exc = e,
               !.raised = IF fr.raised = NoExc THEN e ELSE @,
               !.where  = IF fr.raised = NoExc THEN where ELSE @]

Finished(fr) == fr.exc # NoExc \/ fr.ret # NoRet

\* RemoveToken that leaves the keyword arguments as they are.
RemoveToken_Never(p, kws) == kws

\* base.py 151-153: the auth token given as a query parameter is removed.
RemoveToken(p, kws) ==
    IF QUERY_PARAM_ATTRIBUTE_NAME \in p /\ QUERY_PARAM_ATTRIBUTE_NAME \in DOMAIN kws
    THEN [k \in DOMAIN kws \ {QUERY_PARAM_ATTRIBUTE_NAME} |-> kws[k]]
    ELSE kws

\* base.py 169-175: the handler of IndexError inside the loop.
\* types.pop(0) is evaluated before kwargs[name].
CoerceKwarg(fr, name) ==
    IF fr.types = <<>>
    THEN fr                                            \* IndexError: LOG.warning
    ELSE LET t  == Head(fr.types)
             f1 == [fr EXCEPT !.types = Tail(fr.types)]
         IN  IF name \notin DOMAIN f1.kwargs
             THEN f1                                   \* KeyError: pass
             ELSE IF CoerceRaises(t, f1.kwargs[name])
                  THEN Raise(f1, CoerceError(t, f1.kwargs[name]), "coercion")
                  ELSE [f1 EXCEPT !.kwargs[name] = Coerce(t, f1.kwargs[name])]

\* base.py 165-168: a = args.pop(0); more.append(types.pop(0)(a)).
CoerceArg(fr, name) ==
    IF fr.args = <<>>
    THEN CoerceKwarg(fr, name)                         \* args.pop(0): IndexError
    ELSE LET a  == Head(fr.args)
             f1 == [fr EXCEPT !.args = Tail(fr.args)]
         IN  IF f1.types = <<>>
             THEN CoerceKwarg(f1, name)                \* types.pop(0): IndexError
             ELSE LET t  == Head(f1.types)
                      f2 == [f1 EXCEPT !.types = Tail(f1.types)]
                  IN  IF CoerceRaises(t, a)
                      THEN Raise(f2, CoerceError(t, a), "coercion")
                      ELSE [f2 EXCEPT !.more = Append(@, Coerce(t, a))]

\* base.py 164: for name in names.
RECURSIVE CoerceLoop(_, _)
CoerceLoop(fr, names) ==
    IF names = <<>> \/ Finished(fr)
    THEN fr
    ELSE CoerceLoop(CoerceArg(fr, Head(names)), Tail(names))

\* base.py 156-175.
CoerceArguments(fr) ==
    IF fr.args = <<>>
    THEN Raise(fr, Exc("IndexError", "pop from empty list"), "coercion")
    ELSE LET f1 == [fr EXCEPT !.more = <<Head(fr.args)>>, !.args = Tail(fr.args)]
         IN  IF f1.types # <<>> THEN CoerceLoop(f1, argspec) ELSE f1

(***************************************************************************)
(* The request body and what constructing body_cls makes of it.            *)
(*   "empty_ok"      no body, and {} conforms to the schema of body_cls    *)
(*   "empty_invalid" no body, and {} violates the schema                   *)
(*   "json_ok"       a JSON object that conforms                           *)
(*   "json_invalid"  a JSON object that violates the schema                *)
(*   "malformed"     a body that pecan.request.json cannot decode          *)
(***************************************************************************)
BodyKinds == {"empty_ok", "empty_invalid", "json_ok", "json_invalid", "malformed"}

BodyObject == [t |-> "body", v |-> "obj"]

ValidationError == Exc("ValidationError", "is a required property")

\* BuildBody without the handler of ValidationError.
BuildBody_Uncaught(fr, b) ==
    IF ~body_cls
    THEN fr
    ELSE LET f1 == [fr EXCEPT !.body = b]
         IN  CASE b = "malformed" ->
                    Raise(f1, Exc("ValueError", "No JSON object could be decoded"), "body")
               [] b \in {"empty_invalid", "json_invalid"} ->
                    Raise(f1, ValidationError, "body")
               [] OTHER ->
                    [f1 EXCEPT !.more = Append(@, BodyObject)]

\* base.py 177-186.
BuildBody(fr, b) ==
    IF ~body_cls
    THEN fr
    ELSE LET f1 == [fr EXCEPT !.body = b]
         IN  CASE b = "malformed" ->
                    Raise(f1, Exc("ValueError", "No JSON object could be decoded"), "body")
               [] b \in {"empty_invalid", "json_invalid"} ->
                    LET f2 == Raise(f1, ValidationError, "body")
                        h  == handle_error(f2.response, ValidationError, BAD_REQUEST, "", {})
                    IN  [f2 EXCEPT !.response = h.response, !.ret = h.ret, !.exc = h.exc]
               [] OTHER ->
                    [f1 EXCEPT !.more = Append(@, BodyObject)]

(***************************************************************************)
(* What f does once called: it returns a result, or raises a webob HTTP    *)
(* exception (whose wsgi_response has a status code, a body that is empty  *)
(* unless the exception was given one, and headers that are empty for the  *)
(* responses webob builds without a body), or raises another exception.    *)
(***************************************************************************)
FOutcomes ==
    {Exc("return", ""), Exc("TypeError", "takes exactly 2 arguments")}
    \cup {HTTPExc("HTTPUnauthorized", "Unauthorized", 401, b,
                  {"Content-Type", "WWW-Authenticate"}) : b \in {"", "<html>"}}
    \cup {HTTPExc("HTTPNotFound", "Not Found", 404, b, {"Content-Type"}) :
                  b \in {"", "<html>"}}
    \cup {HTTPExc("HTTPNotModified", "Not Modified", 304, "", {})}

\* base.py 198-237.
Invoke(fr, fo) ==
    LET f1 == [fr EXCEPT !.invoked = TRUE, !.fargs = fr.args, !.fkwargs = fr.kwargs]
    IN  IF fo.type = "return"
        THEN [f1 EXCEPT !.response.status = IF status_code # 0 THEN status_code ELSE @,
                        !.ret = IF content_type = "application/json"
                                THEN json_encode("result")
                                ELSE RawResult("result")]
        ELSE IF IsHTTPException(fo)
        THEN LET f2 == Raise(f1, fo, "function")
                 h  == handle_error(f2.response, fo, fo.status, fo.body, fo.headers)
             IN  [f2 EXCEPT !.response = h.response, !.ret = h.ret, !.exc = h.exc]
        ELSE Raise(f1, fo, "function")

\* base.py 188-199.
Dispatch(fr, fo) ==
    LET f1 == [fr EXCEPT !.args = fr.more \o fr.args]
    IN  IF status_code # 0 /\ status_code \in noop_codes
        THEN [f1 EXCEPT !.response.status = status_code, !.ret = json_encode("null")]
        ELSE Invoke(f1, fo)

\* OuterHandler that catches ValueError alone.
OuterHandler_ValueErrorOnly(fr) ==
    IF fr.exc = NoExc
    THEN fr
    ELSE IF fr.exc.type # "ValueError"
    THEN [fr EXCEPT !.propagated = TRUE]
    ELSE LET h == handle_error(fr.response, fr.exc, INTERNAL_SERVER_ERROR, "", {})
         IN  [fr EXCEPT !.response = h.response, !.ret = h.ret, !.exc = NoExc]

\* base.py 239-241: except Exception.
OuterHandler(fr) ==
    IF fr.exc = NoExc
    THEN fr
    ELSE LET h == handle_error(fr.response, fr.exc, INTERNAL_SERVER_ERROR, "", {})
         IN  [fr EXCEPT !.response = h.response, !.ret = h.ret, !.exc = NoExc]

\* base.py 134-241: callfunction, called with args and kwargs, with the request body b
\* and the behaviour fo of f.
callfunction(a, kws, b, fo) ==
    LET f0 == Frame(a, RemoveToken(params, kws))
        f1 == CoerceArguments(f0)
        f2 == IF Finished(f1) THEN f1 ELSE BuildBody(f1, b)
        f3 == IF Finished(f2) THEN f2 ELSE Dispatch(f2, fo)
    IN  OuterHandler(f3)

\* The nondeterminism a call consumes: the body is read only when body_cls
\* is given and coercion went through, f runs only when it is reached.
BodyChoices(a, kws) ==
    IF body_cls /\ ~Finished(CoerceArguments(Frame(a, RemoveToken(params, kws))))
    THEN BodyKinds ELSE {"none"}

FChoices(a, kws, b) ==
    IF callfunction(a, kws, b, Exc("return", "")).invoked
    THEN FOutcomes ELSE {Exc("return", "")}

NoCall == [Frame(<<>>, [k \in {} |-> Raw("")]) EXCEPT !.types = <<>>]

CallFunction ==
    /\ phase = "ready"
    /\ \E b \in BodyChoices(args, kwargs) :
         \E fo \in FChoices(args, kwargs, b) :
            LET fr == callfunction(args, kwargs, b, fo)
            IN  /\ call' = [fr EXCEPT !.types = <<>>]
                /\ response' = fr.response
    /\ phase' = "done"
    /\ UNCHANGED <<arg_types, body_cls, status_code, content_type, argspec,
                   args, kwargs, params>>
    /\ UNCHANGED apivars

(***************************************************************************)
(*                     BaseAPI and ActionExecutionAPI                      *)
(***************************************************************************)
MaxTime == 2    \* timestamps are 0..MaxTime

\* Python values: a type tag t, a payload v and, for a datetime, the number n.
Val(t, v)   == [t |-> t, v |-> v, n |-> 0]
None        == Val("null", "")
Str(x)      == Val("string", x)
Bool(x)     == Val("boolean", x)
Dict(x)     == Val("object", x)      \* a dict held inline; "" is the empty dict
List(x)     == Val("array", x)       \* a list; "" is the empty list
ObjectId(x) == Val("objectid", x)
Ref(a)      == Val("ref", a)         \* the dict at address a of the heap
DateTime(x) == [t |-> "datetime", v |-> "", n |-> x]

EmptyMap == [k \in {} |-> None]

\* Python truth of a value (if value / not value).
Truthy(v, h) ==
    CASE v.t = "null"    -> FALSE
      [] v.t = "boolean" -> v.v = "true"
      [] v.t = "ref"     -> DOMAIN h[v.v] # {}
      [] v.t \in {"string", "object", "array"} -> v.v # ""
      [] OTHER           -> TRUE

\* The JSON type of a value; a datetime or an ObjectId has none.
JsonType(v) == IF v.t = "ref" THEN "object" ELSE v.t

(***************************************************************************)
(* Schemas (draft 3: "required" sits in the property's own schema).        *)
(***************************************************************************)
Schema(type, required, props, additional) ==
    [type |-> type, required |-> required, hasdefault |-> FALSE, default |-> None,
     properties |-> props, additional |-> additional]
Leaf(type, required)    == Schema(type, required, EmptyMap, TRUE)
WithDefault(schema, d)  == [schema EXCEPT !.hasdefault = TRUE, !.default = d]

\* The schema of LiveActionAPI, as far as the conversions touch it.
LiveActionSchema(required) ==
    Schema("object", required,
           [p \in {"status", "start_timestamp", "end_timestamp"} |-> Leaf("string", FALSE)],
           TRUE)

\* execution.py 31-38: the schemas of the attributes an execution must have.
REQUIRED_ATTR_SCHEMAS ==
    [action     |-> Leaf("object", TRUE),
     runner     |-> Leaf("object", TRUE),
     liveaction |-> LiveActionSchema(TRUE)]

\* execution.py 43-67 (rule stands for trigger, trigger_type,
\* trigger_instance and rule, which are declared alike).
ActionExecutionSchema ==
    Schema("object", FALSE,
           [p \in {"id", "rule", "action", "runner", "liveaction", "parent", "children"} |->
              CASE p = "id"         -> Leaf("string", TRUE)
                [] p = "rule"       -> Leaf("object", FALSE)
                [] p = "action"     -> REQUIRED_ATTR_SCHEMAS.action
                [] p = "runner"     -> REQUIRED_ATTR_SCHEMAS.runner
                [] p = "liveaction" -> REQUIRED_ATTR_SCHEMAS.liveaction
                [] p = "parent"     -> Leaf("string", FALSE)
                [] p = "children"   -> Leaf("array", FALSE)],
           FALSE)

\* The schema of some other subclass of BaseAPI, one property of which has a
\* default.
SubclassSchema ==
    Schema("object", FALSE,
           [p \in {"name", "description", "enabled"} |->
              CASE p = "name"        -> Leaf("string", TRUE)
                [] p = "description" -> Leaf("string", FALSE)
                [] p = "enabled"     -> WithDefault(Leaf("boolean", FALSE), Bool("true"))],
           FALSE)

(***************************************************************************)
(* The validator: validate(instance, schema) raises on violation.  Built   *)
(* with assign_property_default it writes the defaults of the schema into  *)
(* the instance it validates.                                              *)
(***************************************************************************)
RECURSIVE Conforms(_, _, _), ConformsMapping(_, _, _)
Conforms(v, schema, h) ==
    /\ JsonType(v) = schema.type
    /\ v.t = "ref" => ConformsMapping(h[v.v], schema, h)

ConformsMapping(d, schema, h) ==
    /\ \A p \in DOMAIN schema.properties :
          schema.properties[p].required => p \in DOMAIN d
    /\ \A k \in DOMAIN d :
          IF k \in DOMAIN schema.properties
          THEN Conforms(d[k], schema.properties[k], h)
          ELSE schema.additional

AssignDefaults(d, schema) ==
    LET missing == {p \in DOMAIN schema.properties :
                      schema.properties[p].hasdefault /\ p \notin DOMAIN d}
    IN  [k \in DOMAIN d \cup missing |->
            IF k \in DOMAIN d THEN d[k] ELSE schema.properties[k].default]

get_validator(assign_property_default, schema, d, h) ==
    LET instance == IF assign_property_default THEN AssignDefaults(d, schema) ELSE d
    IN  [ok |-> ConformsMapping(instance, schema, h), instance |-> instance]

\* base.py 36.
VALIDATOR(schema, d, h) == get_validator(FALSE, schema, d, h)

\* BaseAPI.__init__ that sets the attributes before it validates.
BaseAPI_init_AssignFirst(schema, kwds, h) ==
    LET v == VALIDATOR(schema, kwds, h)
    IN  [attrs |-> [key \in DOMAIN kwds |-> kwds[key]],
         exc   |-> IF v.ok THEN NoExc ELSE ValidationError]

\* base.py 55-59: BaseAPI.__init__: the attributes set on self, and the
\* exception raised.
BaseAPI_init(schema, kwds, h) ==
    LET v == VALIDATOR(schema, kwds, h)
    IN  IF ~v.ok
        THEN [attrs |-> EmptyMap, exc |-> ValidationError]
        ELSE [attrs |-> [key \in DOMAIN v.instance |-> v.instance[key]], exc |-> NoExc]

\* base.py 73-74.
BaseAPI_json(self) == self.attrs

NoInst == [attrs |-> EmptyMap, exc |-> NoExc]

Construct ==
    /\ step = "construct"
    /\ inst' = BaseAPI_init(SubclassSchema, kw, heap)
    /\ step' = "constructed"
    /\ UNCHANGED <<kw, heap, api, conv>>
    /\ UNCHANGED jsvars

(***************************************************************************)
(* Timestamps.  isotime.format writes a datetime as a string of digits     *)
(* ending in Z, isotime.parse reads such a string back and raises on any   *)
(* other.                                                                  *)
(***************************************************************************)
Digits == <<"0", "1", "2", "3", "4", "5", "6", "7", "8", "9">>
Times  == 0..MaxTime

ISO(x) == Digits[(x \div 10) + 1] \o Digits[(x % 10) + 1] \o "Z"

isotime_format(dt) == Str(ISO(dt.n))
IsISO(value)       == value.t = "string" /\ \E x \in 0..99 : ISO(x) = value.v
isotime_parse(value) == DateTime(CHOOSE x \in 0..99 : ISO(x) = value.v)

(***************************************************************************)
(* The document model lives in the heap: its fields at ModelAddr, the dict *)
(* of its liveaction field at LiveAddr.  to_mongo() builds a new mapping   *)
(* of the fields that are set, with a copy of every nested dict.           *)
(***************************************************************************)
ModelAddr == "model"
LiveAddr  == "model.liveaction"
DocAddr   == "doc"
DocLive   == "doc.liveaction"
NewAddr   == "new"
NewLive   == "new.liveaction"

Alloc(h, a, d) == (a :> d) @@ h
Store(h, a, k, v) ==
    [h EXCEPT ![a] = [x \in DOMAIN h[a] \cup {k} |-> IF x = k THEN v ELSE h[a][x]]]
Drop(h, a, k) == [h EXCEPT ![a] = [x \in DOMAIN h[a] \ {k} |-> h[a][x]]]

to_mongo(h, model) ==
    LET set == {f \in DOMAIN h[model] : h[model][f] # None}
        h1  == Alloc(h, DocLive, h[h[model]["liveaction"].v])
    IN  Alloc(h1, DocAddr,
              [f \in set |-> IF f = "liveaction" THEN Ref(DocLive) ELSE h[model][f]])

\* _from_model that renames _id in the mapping of the model itself.
BaseAPI_from_model_InPlace(h, model) ==
    LET h2 == IF "_id" \in DOMAIN h[model] /\ h[model]["_id"] # None
              THEN Store(Drop(h, model, "_id"), model, "id", Str(h[model]["_id"].v))
              ELSE h
    IN  [heap |-> Alloc(Alloc(h2, DocLive, EmptyMap), DocAddr, EmptyMap), doc |-> model]

\* base.py 76-81: BaseAPI._from_model; the heap after it and the address of
\* doc.  No key of the model holds an escaped character, so unescape_chars
\* returns the mapping it is given with the same keys.
BaseAPI_from_model(h, model) ==
    LET h1 == to_mongo(h, model)
        h2 == IF "_id" \in DOMAIN h1[DocAddr]
              THEN Store(Drop(h1, DocAddr, "_id"), DocAddr, "id",
                         Str(h1[DocAddr]["_id"].v))
              ELSE h1
    IN  [heap |-> h2, doc |-> DocAddr]

\* base.py 83-87: BaseAPI.from_model, for a subclass with the given schema.
base_from_model(h, model, schema) ==
    LET r     == BaseAPI_from_model(h, model)
        doc   == r.heap[r.doc]
        attrs == [attr \in {a \in DOMAIN doc : doc[a] # None} |-> doc[attr]]
        new   == BaseAPI_init(schema, attrs, r.heap)
    IN  [heap |-> r.heap, attrs |-> new.attrs, exc |-> new.exc]

\* execution.py 81: the attributes of doc that are true.
TrueAttrs(h, doc) ==
    [attr \in {a \in DOMAIN h[doc] : Truthy(h[doc][a], h)} |-> h[doc][attr]]

\* execution.py 69-82: ActionExecutionAPI.from_model.
from_model(h, model) ==
    LET r    == BaseAPI_from_model(h, model)
        doc  == r.doc
        live == r.heap[doc]["liveaction"].v
    IN  IF "start_timestamp" \notin DOMAIN r.heap[live]
        THEN [heap |-> r.heap, attrs |-> EmptyMap, exc |-> Exc("KeyError", "start_timestamp")]
        ELSE LET start_timestamp == isotime_format(r.heap[live]["start_timestamp"])
                 h1 == IF "end_timestamp" \in DOMAIN r.heap[live]
                          /\ r.heap[live]["end_timestamp"] # None
                       THEN Store(r.heap, live, "end_timestamp",
                                  isotime_format(r.heap[live]["end_timestamp"]))
                       ELSE r.heap
                 h2 == Store(h1, live, "start_timestamp", start_timestamp)
                 new == BaseAPI_init(ActionExecutionSchema, TrueAttrs(h2, doc), h2)
             IN  [heap |-> h2, attrs |-> new.attrs, exc |-> new.exc]

\* The fields of ActionExecutionDB that are required.
DBRequired == {"action", "runner", "liveaction"}

\* execution.py 86: cls.model(), a document none of whose fields is set.
NewModel(h) ==
    Alloc(h, NewAddr, [f \in DOMAIN ActionExecutionSchema.properties |-> None])

\* execution.py 87-92: the value each attribute of the new model gets.  A
\* dict assigned to a field of the model is held by the model as a dict of
\* its own.
SetAttrs(h, instance) ==
    LET value(attr) == IF attr \in DOMAIN instance.attrs
                       THEN instance.attrs[attr]
                       ELSE ActionExecutionSchema.properties[attr].default
        skip(attr)  == ~Truthy(value(attr), h) /\ attr \notin DBRequired
        h1 == IF value("liveaction").t = "ref"
              THEN Alloc(h, NewLive, h[value("liveaction").v])
              ELSE h
    IN  [h1 EXCEPT ![NewAddr] =
            [attr \in DOMAIN @ |->
                IF skip(attr) THEN @[attr]
                ELSE IF value(attr).t = "ref" THEN Ref(NewLive) ELSE value(attr)]]

\* execution.py 94 and 95: model.liveaction[key] = isotime.parse(model.liveaction[key]).
ParseTimestamp(r, key) ==
    IF r.exc # NoExc
    THEN r
    ELSE LET live == r.heap[NewAddr]["liveaction"]
         IN  IF live.t # "ref"
             THEN [r EXCEPT !.exc = Exc("TypeError", "object has no attribute __getitem__")]
             ELSE IF key \notin DOMAIN r.heap[live.v]
             THEN [r EXCEPT !.exc = Exc("KeyError", key)]
             ELSE IF ~IsISO(r.heap[live.v][key])
             THEN [r EXCEPT !.exc = Exc("ValueError", "not an ISO8601 timestamp")]
             ELSE [r EXCEPT !.heap = Store(@, live.v, key,
                                          isotime_parse(r.heap[live.v][key]))]

\* execution.py 84-96: ActionExecutionAPI.to_model.
to_model(h, instance) ==
    LET r0 == [heap |-> SetAttrs(NewModel(h), instance), exc |-> NoExc]
        r1 == ParseTimestamp(r0, "start_timestamp")
    IN  ParseTimestamp(r1, "end_timestamp")

NoApi  == [attrs |-> EmptyMap, exc |-> NoExc]
NoConv == [exc |-> NoExc]
EmptyHeap == [a \in {} |-> EmptyMap]

FromModel ==
    /\ step = "from_model"
    /\ LET r == from_model(heap, ModelAddr)
       IN  /\ heap' = r.heap
           /\ api' = [attrs |-> r.attrs, exc |-> r.exc]
    /\ step' = "to_model"
    /\ UNCHANGED <<kw, inst, conv>>
    /\ UNCHANGED jsvars

\* from_model of a subclass that inherits it from BaseAPI.
BaseFromModel ==
    /\ step = "from_model"
    /\ LET r == base_from_model(heap, ModelAddr, ActionExecutionSchema)
       IN  /\ heap' = r.heap
           /\ api' = [attrs |-> r.attrs, exc |-> r.exc]
    /\ step' = "returned"
    /\ UNCHANGED <<kw, inst, conv>>
    /\ UNCHANGED jsvars

ToModel ==
    /\ step = "to_model"
    /\ api.exc = NoExc
    /\ LET r == to_model(heap, api)
       IN  /\ heap' = r.heap
           /\ conv' = [exc |-> r.exc]
    /\ step' = "converted"
    /\ UNCHANGED <<kw, inst, api>>
    /\ UNCHANGED jsvars

(***************************************************************************)
(* The inputs of SpecApi.                                                  *)
(***************************************************************************)
KwInputs ==
    UNION {[K -> {Str("x"), Bool("false")}] :
             K \in SUBSET {"name", "description", "enabled", "extra"}}

Optional(key, values) ==
    {EmptyMap} \cup {[k \in {key} |-> v] : v \in values}

LiveActions ==
    {[k \in {"status"} |-> Str("running")] @@ s @@ e :
        s \in Optional("start_timestamp", {DateTime(x) : x \in Times}),
        e \in Optional("end_timestamp", {DateTime(x) : x \in Times})}

Models ==
    {[_id |-> id, action |-> action, runner |-> Dict("runner"),
      liveaction |-> Ref(LiveAddr), rule |-> rule, parent |-> parent,
      children |-> children] :
        id \in {None, ObjectId("5f")}, action \in {Dict(""), Dict("action")},
        rule \in {Dict(""), Dict("rule")}, parent \in {None, Str("p")},
        children \in {List(""), List("c")}}

ApiInit ==
    /\ inst = NoInst /\ api = NoApi /\ conv = NoConv
    /\ \/ /\ step = "construct"
          /\ kw \in KwInputs
          /\ heap = EmptyHeap
       \/ /\ step = "from_model"
          /\ kw = EmptyMap
          /\ \E m \in Models, l \in LiveActions :
                heap = Alloc(Alloc(EmptyHeap, LiveAddr, l), ModelAddr, m)
    /\ phase = "idle" /\ arg_types = <<>> /\ body_cls = FALSE /\ status_code = 0
    /\ content_type = "application/json" /\ argspec = <<>> /\ args = <<>>
    /\ kwargs = [k \in {} |-> Raw("")] /\ params = {}
    /\ response = FreshResponse /\ call = NoCall

(***************************************************************************)
(* The requests and decorations of the model.                              *)
(***************************************************************************)
Prefix(s, n) == SubSeq(s, 1, n)

\* The positional arguments after the controller: the first n values, one
\* of them possibly not a number.
PosArgs ==
    UNION {{[i \in 1..n |-> Raw(IF i = bad THEN "x" ELSE AllValues[i])] :
              bad \in 0..n} : n \in 0..MaxArgs}

ArgLists == {<<>>} \cup {<<Controller>> \o p : p \in PosArgs}

KwVals == {Raw("7"), Raw("x"), Raw("tok")}

KwargSets(names) ==
    UNION {{kws \in [K -> KwVals] :
              \A k \in K : (k = QUERY_PARAM_ATTRIBUTE_NAME) <=> (kws[k] = Raw("tok"))} :
           K \in SUBSET (Range(names) \cup {QUERY_PARAM_ATTRIBUTE_NAME})}

StatusCodes == {0, 201, 403, 405, 501}

JsInit ==
    /\ phase = "ready"
    /\ arg_types \in {Prefix(AllTypes, n) : n \in 0..MaxTypes}
    /\ body_cls \in BOOLEAN
    /\ status_code \in StatusCodes
    /\ content_type \in {"application/json", "text/plain"}
    /\ argspec \in {Prefix(AllNames, n) : n \in 0..MaxNames}
    /\ args \in ArgLists
    /\ kwargs \in KwargSets(argspec)
    /\ params \in {{}, {QUERY_PARAM_ATTRIBUTE_NAME}}
    /\ response = FreshResponse
    /\ call = NoCall
    /\ step = "idle" /\ kw = EmptyMap /\ inst = NoInst
    /\ heap = EmptyHeap /\ api = NoApi /\ conv = NoConv


JsNext  == CallFunction
ApiNext == Construct \/ BaseFromModel \/ FromModel \/ ToModel

SpecJs  == JsInit /\ [][JsNext]_vars
SpecApi == ApiInit /\ [][ApiNext]_vars

(***************************************************************************)
(*                         The claims: jsexpose                            *)
(***************************************************************************)
Done == phase = "done"

\* The exception the call raised is not a webob HTTP exception and came out
\* of argument coercion, body construction or f itself.
PlainFailure ==
    /\ call.raised # NoExc
    /\ ~IsHTTPException(call.raised)
    /\ call.where \in {"coercion", "body", "function"}

\* The wrapper answered the exception e with status code c.
Answered(e, c) ==
    /\ ~call.propagated
    /\ call.ret.kind = "error"
    /\ call.ret.faultstring = e.message
    /\ response.status = c

\* C1, as stated: every exception that is not a framework HTTP exception and
\* is raised during argument coercion, request-body construction or the
\* controller function is not propagated; the wrapper returns a JSON object
\* whose faultstring is the exception's message and sets the status to 500.
C1_AsStated ==
    Done /\ PlainFailure => Answered(call.raised, INTERNAL_SERVER_ERROR)

\* C1, amended: the same, for every such exception other than the schema
\* ValidationError that constructing body_cls raises, which is answered
\* with 400.
C1_PlainFailureIs500 ==
    Done /\ PlainFailure /\ call.raised # ValidationError
        => Answered(call.raised, INTERNAL_SERVER_ERROR)

\* C1, witness: f itself raised a TypeError and the call returned normally.
C1_Witness ==
    /\ Done /\ PlainFailure /\ call.invoked
    /\ call.raised.type = "TypeError"
    /\ call.ret = ErrorBody(call.raised.message)
    /\ response.status = INTERNAL_SERVER_ERROR

\* C2: when body_cls is given and constructing it from the request body (or
\* from {} when the body is empty) raises a schema ValidationError, the
\* status is 400, a JSON object with faultstring is returned and f is never
\* invoked.
C2_ValidationErrorIs400 ==
    Done /\ body_cls /\ call.body \in {"empty_invalid", "json_invalid"}
        => /\ Answered(ValidationError, BAD_REQUEST)
           /\ ~call.invoked

\* C2, witness: an empty request body that violates the schema.
C2_Witness ==
    /\ Done /\ body_cls /\ call.body = "empty_invalid"
    /\ call.raised = ValidationError
    /\ response.status = BAD_REQUEST

\* C3, as stated: when f raises a webob HTTP exception the wrapper returns a
\* JSON body with faultstring, and at the end of the call the status is the
\* exception's status code and the headers are the exception's headers,
\* whatever body the exception carries.
C3_AsStated ==
    Done /\ call.invoked /\ IsHTTPException(call.raised)
        => /\ call.ret.kind = "error"
           /\ response.status = call.raised.status
           /\ response.headers = call.raised.headers

\* C7: with status_code 501, 405 or 403 f is never invoked; coercion and
\* body validation still run first, and on every request where they succeed
\* the status is the configured code and the body is the JSON null.
C7_NoopCodes ==
    Done /\ status_code \in {501, 405, 403}
        => /\ ~call.invoked
           /\ call.raised = NoExc =>
                /\ response.status = status_code
                /\ call.ret = json_encode("null")
                /\ body_cls => call.body \in {"empty_ok", "json_ok"}
                /\ (arg_types # <<>> /\ argspec # <<>> /\ Len(args) > 1)
                      => call.args[2] = Coerce(arg_types[1], args[2])
           /\ (call.raised # NoExc /\ body_cls /\ call.where # "coercion")
                => call.body \in BodyKinds

\* C7, witness: a 405 method given an argument and a valid body.
C7_Witness ==
    /\ Done /\ status_code = 405 /\ body_cls
    /\ call.body = "json_ok" /\ Len(call.args) = 3
    /\ call.args[2].t = "int"
    /\ response.status = 405

\* C8: when the auth token is both a query parameter and a keyword argument
\* of the call, it is removed from the keyword arguments before coercion and
\* before f is invoked, and every other keyword argument is still passed.
C8_TokenRemoved ==
    (Done /\ QUERY_PARAM_ATTRIBUTE_NAME \in params
          /\ QUERY_PARAM_ATTRIBUTE_NAME \in DOMAIN kwargs)
        => /\ QUERY_PARAM_ATTRIBUTE_NAME \notin DOMAIN call.kwargs
           /\ call.invoked =>
                DOMAIN call.fkwargs = DOMAIN kwargs \ {QUERY_PARAM_ATTRIBUTE_NAME}

\* C8, witness: f was invoked with the other keyword arguments.
C8_Witness ==
    /\ Done /\ call.invoked
    /\ QUERY_PARAM_ATTRIBUTE_NAME \in params
    /\ QUERY_PARAM_ATTRIBUTE_NAME \in DOMAIN kwargs
    /\ DOMAIN call.fkwargs = {"a", "b"}

\* The positional arguments f received, without the controller and without
\* the body object.
Received == SelectSeq(Tail(call.fargs), LAMBDA x : x.t # "body")

\* C9, as stated: each positional argument after the controller reaches f
\* exactly once and in its original order, the i-th coerced by the i-th
\* entry of arg_types when that entry exists and unchanged otherwise, and
\* each keyword argument named in the signature is coerced by the type at
\* its own signature position; none is dropped or shifted.  (Read in the
\* claim's favour: a positional argument beyond the named parameters of f
\* counts as one with no type, and so does a keyword argument whose
\* parameter was also given positionally.)
C9_AsStated ==
    (Done /\ call.invoked /\ arg_types # <<>>)
        => /\ Len(Received) = Len(args) - 1
           /\ \A i \in 1..(Len(args) - 1) :
                 i <= Len(Received) =>
                    Received[i] = IF i <= Len(arg_types) /\ i <= Len(argspec)
                                  THEN Coerce(arg_types[i], args[i + 1])
                                  ELSE args[i + 1]
           /\ \A j \in 1..Len(argspec) :
                 (argspec[j] \in DOMAIN kwargs /\ j >= Len(args))
                    => call.fkwargs[argspec[j]] =
                          IF j <= Len(arg_types)
                          THEN Coerce(arg_types[j], kwargs[argspec[j]])
                          ELSE kwargs[argspec[j]]

(***************************************************************************)
(*                The claims: BaseAPI and ActionExecutionAPI               *)
(***************************************************************************)
\* C4: constructing a BaseAPI subclass validates the whole keyword mapping
\* before any attribute is assigned: when the mapping violates the schema
\* the constructor raises and no attribute has been set; when it conforms,
\* the attributes, and so the mapping __json__ returns, are exactly the
\* given keys with the given values, with no schema default added.
C4_ValidateThenAssign ==
    step = "constructed"
        => IF ConformsMapping(kw, SubclassSchema, heap)
           THEN inst.exc = NoExc /\ BaseAPI_json(inst) = kw
           ELSE inst.exc = ValidationError /\ DOMAIN inst.attrs = {}

\* C4, witness: a conforming mapping that leaves out the property with a
\* default.
C4_Witness ==
    /\ step = "constructed"
    /\ inst.exc = NoExc
    /\ DOMAIN kw = {"name", "description"}
    /\ DOMAIN BaseAPI_json(inst) = {"name", "description"}

\* C5, as stated: for every execution model whose liveaction has a
\* start_timestamp, with or without an end_timestamp,
\* to_model(from_model(model)) completes without error and the timestamps
\* of the model it yields equal the original ones (end_timestamp absent or
\* None when the original had none).
C5_AsStated ==
    step = "converted"
        => /\ conv.exc = NoExc
           /\ heap[NewLive]["start_timestamp"] = heap[LiveAddr]["start_timestamp"]
           /\ IF "end_timestamp" \in DOMAIN heap[LiveAddr]
              THEN /\ "end_timestamp" \in DOMAIN heap[NewLive]
                   /\ heap[NewLive]["end_timestamp"] = heap[LiveAddr]["end_timestamp"]
              ELSE \/ "end_timestamp" \notin DOMAIN heap[NewLive]
                   \/ heap[NewLive]["end_timestamp"] = None

\* C6: BaseAPI.from_model and ActionExecutionAPI.from_model leave the
\* document model they are given unchanged, whether they return or raise:
\* every field of the model, the nested liveaction timestamps included, has
\* the value it had before the call.
C6_ModelUnchanged ==
    [][step = "from_model"
          => /\ heap'[ModelAddr] = heap[ModelAddr]
             /\ heap'[LiveAddr] = heap[LiveAddr]]_vars

\* C6, witness: from_model has returned, doc holds a string id and ISO
\* strings, and the model still holds its _id and its datetimes.
C6_Witness ==
    /\ step = "to_model"
    /\ api.exc = NoExc
    /\ heap[DocAddr]["id"].t = "string"
    /\ "end_timestamp" \in DOMAIN heap[LiveAddr]
    /\ heap[DocLive]["start_timestamp"].t = "string"
    /\ heap[DocLive]["end_timestamp"].t = "string"
    /\ heap[ModelAddr]["_id"].t = "objectid"
    /\ heap[LiveAddr]["start_timestamp"].t = "datetime"
    /\ heap[LiveAddr]["end_timestamp"].t = "datetime"

====
